---- MODULE Spec2Model ----
(***************************************************************************)
(* A model of mcp_server_fetch/http_server.py: the process-wide identity   *)
(* configuration, the fetch tool (validation, the call of fetch_url, the   *)
(* pagination of the fetched content), the bearer-token ASGI middleware    *)
(* and a caller that walks a document page by page.                        *)
(*                                                                         *)
(* Python strings are sequences of code points, bytes are sequences of     *)
(* integers 0..255.  Strings that the code only passes around (urls, user  *)
(* agents, exception messages) are TLA+ strings.                           *)
(***************************************************************************)
EXTENDS Integers, Sequences, FiniteSets, TLC

VARIABLES
    mcp_tools,              \* the tools registered on the FastMCP instance
    phase,                  \* "imported" (module loaded) or "serving" (uvicorn runs)
    USER_AGENT_AUTONOMOUS,  \* module global, http_server.py:47
    USER_AGENT_MANUAL,      \* module global, http_server.py:48
    PROXY_URL,              \* module global, http_server.py:49
    app,                    \* the ASGI application get_app returned
    remote,                 \* what fetch_url produces when it is awaited now
    inv,                    \* the tool invocations in flight, one per caller
    walk,                   \* the paginating caller's own notes
    http                    \* the last HTTP request and what the server did with it

vars == <<mcp_tools, phase, USER_AGENT_AUTONOMOUS, USER_AGENT_MANUAL, PROXY_URL,
          app, remote, inv, walk, http>>

(***************************************************************************)
(* Bounds.                                                                 *)
(***************************************************************************)
\* The longest document the remote side serves.
MaxLen == 3

Max(a, b) == IF a >= b THEN a ELSE b
Min(a, b) == IF a <= b THEN a ELSE b

\* Python's None where a str is expected.
None == "<None>"
\* Python's None where a sequence of code points is expected: no code point
\* is negative, so this is no string.
NoneStr == <<-1>>

\* bool(s) for an Optional[str]: None and "" are falsy.
Truthy(s) == s # None /\ s # ""
TruthyStr(s) == s # NoneStr /\ s # <<>>

DEFAULT_USER_AGENT_AUTONOMOUS ==
    "ModelContextProtocol/1.0 (Autonomous; +https://github.com/modelcontextprotocol/servers)"
DEFAULT_USER_AGENT_MANUAL ==
    "ModelContextProtocol/1.0 (User-Specified; +https://github.com/modelcontextprotocol/servers)"

(***************************************************************************)
(* The inputs.                                                             *)
(***************************************************************************)
\* The document of length n: its i-th character is the letter number i, so
\* that every window of it is told apart from every other.
Document(n) == [i \in 1..n |-> 96 + i]
Contents == {Document(n) : n \in 0..MaxLen}

Urls == {"", "http://a.example/doc"}
Prefixes == {"", "Content was simplified; use raw=true for the exact content\n"}
Causes == {"connection refused", "status code 404"}

\* What awaiting fetch_url can produce: a (content, prefix) pair, or an
\* exception (a subclass of Exception) with a message.
Outcome(kind, content, prefix, cause) ==
    [kind |-> kind, content |-> content, prefix |-> prefix, cause |-> cause]
Outcomes ==
    {Outcome("ok", c, p, "") : c \in Contents, p \in Prefixes}
      \cup {Outcome("raise", <<>>, "", e) : e \in Causes}

\* The integers a caller may pass: FastMCP validates the annotations of the
\* function's signature, which are plain int.
StartIndexes == -1..(MaxLen + 1)
MaxLengths == -1..(MaxLen + 1)

(***************************************************************************)
(* configure_server                                                        *)
(***************************************************************************)
\* custom_user_agent or DEFAULT
OrDefault(custom_user_agent, default) ==
    IF Truthy(custom_user_agent) THEN custom_user_agent ELSE default

\* configure_server that sets the autonomous user agent and the proxy and
\* forgets the manual user agent.
configure_server_autonomous_only(custom_user_agent, proxy_url) ==
    /\ USER_AGENT_AUTONOMOUS' = OrDefault(custom_user_agent, DEFAULT_USER_AGENT_AUTONOMOUS)
    /\ USER_AGENT_MANUAL' = USER_AGENT_MANUAL
    /\ PROXY_URL' = proxy_url

configure_server(custom_user_agent, proxy_url) ==
    /\ USER_AGENT_AUTONOMOUS' = OrDefault(custom_user_agent, DEFAULT_USER_AGENT_AUTONOMOUS)
    /\ USER_AGENT_MANUAL' = OrDefault(custom_user_agent, DEFAULT_USER_AGENT_MANUAL)
    /\ PROXY_URL' = proxy_url

(***************************************************************************)
(* The fetch tool.                                                         *)
(***************************************************************************)
\* s[start:stop] of Python, for any integers: a negative index counts from
\* the end, and both are clamped to the string.
PyIndex(i, n) == IF i < 0 THEN Max(i + n, 0) ELSE Min(i, n)
PySlice(s, start, stop) ==
    LET lo == PyIndex(start, Len(s))
        hi == PyIndex(stop, Len(s))
    IN  IF lo < hi THEN SubSeq(s, lo + 1, hi) ELSE <<>>

\* The string the tool returns, by its parts:
\*   kind "url_required"  "<error>URL is required</error>"
\*   kind "fetch_failed"  "<error>Failed to fetch {url}: {cause}</error>"
\*   kind "no_more"       "<error>No more content available.</error>"
\*   kind "contents"      "{prefix}Contents of {url}:\n{body}", followed when
\*                        notice holds by "\n\n<error>Content truncated. Call
\*                        the fetch tool with a start_index of {next_start}
\*                        to get more content.</error>"
\*   kind "exception"     no string: an exception left the function
\*   kind "none"          the function has not returned
Result(kind, url, cause, prefix, body, notice, next_start) ==
    [kind |-> kind, url |-> url, cause |-> cause, prefix |-> prefix,
     body |-> body, notice |-> notice, next_start |-> next_start]
NoResult == Result("none", "", "", "", <<>>, FALSE, 0)
UrlRequired == Result("url_required", "", "", "", <<>>, FALSE, 0)
NoMoreContent == Result("no_more", "", "", "", <<>>, FALSE, 0)
FetchFailed(url, cause) == Result("fetch_failed", url, cause, "", <<>>, FALSE, 0)
Escaped(cause) == Result("exception", "", cause, "", <<>>, FALSE, 0)

\* NeedsNotice with "remaining_content >= 0": a notice also for the slice
\* that ends where the content ends.
NeedsNoticeAtEnd(actual_content_length, max_length, remaining_content) ==
    actual_content_length = max_length /\ remaining_content >= 0

\* The continuation notice is appended when the window was filled and
\* content remains behind it.
NeedsNotice(actual_content_length, max_length, remaining_content) ==
    actual_content_length = max_length /\ remaining_content > 0

\* Paginate slicing content[start_index : max_length]: the window's end
\* taken as an index rather than as a length.
PaginateNoOffset(url, content, prefix, start_index, max_length) ==
    LET original_length == Len(content)
        truncated_content == PySlice(content, start_index, max_length)
        actual_content_length == Len(truncated_content)
        remaining_content == original_length - (start_index + actual_content_length)
    IN  IF start_index >= original_length THEN NoMoreContent
        ELSE IF truncated_content = <<>> THEN NoMoreContent
        ELSE IF NeedsNotice(actual_content_length, max_length, remaining_content)
             THEN Result("contents", url, "", prefix, truncated_content, TRUE,
                         start_index + actual_content_length)
             ELSE Result("contents", url, "", prefix, truncated_content, FALSE, 0)

\* Paginate without the two end-of-content returns of lines 101-106.
PaginateNoEndCheck(url, content, prefix, start_index, max_length) ==
    LET original_length == Len(content)
        truncated_content == PySlice(content, start_index, start_index + max_length)
        actual_content_length == Len(truncated_content)
        remaining_content == original_length - (start_index + actual_content_length)
    IN  IF NeedsNotice(actual_content_length, max_length, remaining_content)
        THEN Result("contents", url, "", prefix, truncated_content, TRUE,
                    start_index + actual_content_length)
        ELSE Result("contents", url, "", prefix, truncated_content, FALSE, 0)

\* Paginate naming next_start = actual_content_length: the length of the
\* slice, not the index behind it.
PaginateNextRelative(url, content, prefix, start_index, max_length) ==
    LET original_length == Len(content)
        truncated_content == PySlice(content, start_index, start_index + max_length)
        actual_content_length == Len(truncated_content)
        remaining_content == original_length - (start_index + actual_content_length)
    IN  IF start_index >= original_length THEN NoMoreContent
        ELSE IF truncated_content = <<>> THEN NoMoreContent
        ELSE IF NeedsNotice(actual_content_length, max_length, remaining_content)
             THEN Result("contents", url, "", prefix, truncated_content, TRUE,
                         actual_content_length)
             ELSE Result("contents", url, "", prefix, truncated_content, FALSE, 0)

\* Lines 100-116: the window of the fetched content.
Paginate(url, content, prefix, start_index, max_length) ==
    LET original_length == Len(content)
        truncated_content == PySlice(content, start_index, start_index + max_length)
        actual_content_length == Len(truncated_content)
        remaining_content == original_length - (start_index + actual_content_length)
    IN  IF start_index >= original_length THEN NoMoreContent
        ELSE IF truncated_content = <<>> THEN NoMoreContent
        ELSE IF NeedsNotice(actual_content_length, max_length, remaining_content)
             THEN Result("contents", url, "", prefix, truncated_content, TRUE,
                         start_index + actual_content_length)
             ELSE Result("contents", url, "", prefix, truncated_content, FALSE, 0)

\* AfterFetch without the try/except of lines 93-98: the exception leaves
\* the tool.
AfterFetchUncaught(url, outcome, start_index, max_length) ==
    IF outcome.kind = "raise"
    THEN Escaped(outcome.cause)
    ELSE Paginate(url, outcome.content, outcome.prefix, start_index, max_length)

\* Lines 93-116: what the tool does with the outcome of fetch_url.
AfterFetch(url, outcome, start_index, max_length) ==
    IF outcome.kind = "raise"
    THEN FetchFailed(url, outcome.cause)
    ELSE Paginate(url, outcome.content, outcome.prefix, start_index, max_length)

\* One invocation of the tool.  fetch_calls counts the calls of fetch_url it
\* made, user_agent / proxy_url / force_raw are the arguments of the last
\* one, robots tells whether a robots.txt check ran before it.
Invocation(pc, url, max_length, start_index, raw, fetch_calls, user_agent, proxy_url, robots, outcome, result) ==
    [pc |-> pc, url |-> url, max_length |-> max_length, start_index |-> start_index,
     raw |-> raw, fetch_calls |-> fetch_calls, user_agent |-> user_agent,
     proxy_url |-> proxy_url, robots |-> robots,
     outcome |-> outcome, result |-> result]
NoOutcome == Outcome("none", <<>>, "", "")
Idle == Invocation("idle", "", 0, 0, FALSE, 0, None, None, FALSE, NoOutcome, NoResult)

\* UrlGiven without the check of line 89.
UrlNotChecked(url) == TRUE

\* Whether the tool goes on to fetch: line 89.
UrlGiven(url) == url # ""

\* Lines 89-96: the function up to its only await.
Enter(url, max_length, start_index, raw) ==
    IF ~UrlGiven(url)
    THEN Invocation("done", url, max_length, start_index, raw, 0, None, None,
                    FALSE, NoOutcome, UrlRequired)
    ELSE Invocation("awaiting", url, max_length, start_index, raw, 1,
                    USER_AGENT_AUTONOMOUS, PROXY_URL, FALSE, NoOutcome, NoResult)

\* Lines 97-116: the function from the await to its return.
Leave(i, outcome) ==
    [i EXCEPT !.pc = "done", !.outcome = outcome,
              !.result = AfterFetch(i.url, outcome, i.start_index, i.max_length)]

(***************************************************************************)
(* The bearer-token middleware.                                            *)
(***************************************************************************)
\* str.encode("utf-8") for code points below 2048.
Utf8Char(cp) == IF cp < 128 THEN <<cp>> ELSE <<192 + (cp \div 64), 128 + (cp % 64)>>
RECURSIVE Utf8Encode(_)
Utf8Encode(s) == IF s = <<>> THEN <<>> ELSE Utf8Char(Head(s)) \o Utf8Encode(Tail(s))

\* bytes.decode("utf-8"), strict, for bytes that are ASCII, a two-byte
\* sequence, a stray continuation byte or 0xFF: ok is FALSE where Python
\* raises UnicodeDecodeError.  (Lead bytes of longer sequences, 0xE0..0xF4,
\* are outside the requests of this model.)
RECURSIVE Utf8Decode(_)
Utf8Decode(b) ==
    IF b = <<>> THEN [ok |-> TRUE, s |-> <<>>]
    ELSE IF Head(b) < 128
         THEN LET rest == Utf8Decode(Tail(b))
              IN  [ok |-> rest.ok, s |-> <<Head(b)>> \o rest.s]
    ELSE IF /\ Head(b) \in 194..223
            /\ Len(b) >= 2
            /\ b[2] \in 128..191
         THEN LET rest == Utf8Decode(Tail(Tail(b)))
              IN  [ok |-> rest.ok,
                   s |-> <<(Head(b) - 192) * 64 + (b[2] - 128)>> \o rest.s]
    ELSE [ok |-> FALSE, s |-> <<>>]

\* "Bearer "
BearerSp == <<66, 101, 97, 114, 101, 114, 32>>
\* "bearer "
LowerBearerSp == <<98, 101, 97, 114, 101, 114, 32>>

\* dict(scope.get("headers", [])).get(b"authorization", b""): of several
\* headers of one name the dict keeps the last.
RECURSIVE HeaderGet(_, _, _)
HeaderGet(headers, name, default) ==
    IF headers = <<>> THEN default
    ELSE IF headers[Len(headers)][1] = name THEN headers[Len(headers)][2]
    ELSE HeaderGet(SubSeq(headers, 1, Len(headers) - 1), name, default)

Start401 ==
    [type |-> "http.response.start", status |-> 401,
     headers |-> <<<<"content-type", "application/json">>,
                   <<"www-authenticate", "Bearer">>>>,
     body |-> ""]
Body401 ==
    [type |-> "http.response.body", status |-> 0, headers |-> <<>>,
     body |-> "{\"error\": \"Unauthorized\", \"message\": \"Invalid or missing Bearer token\"}"]

\* What the server did with a request: the messages the middleware sent,
\* whether the wrapped application was called, whether an exception left
\* the middleware.
Handled(scope, sent, app_called, raised) ==
    [scope |-> scope, sent |-> sent, app_called |-> app_called, raised |-> raised]

\* if auth_header != expected_auth, line 138
Rejects(auth_header, expected_auth) == auth_header # expected_auth

\* Lines 130-159.
auth_middleware(token, scope) ==
    IF scope.type = "http"
    THEN LET auth_header == Utf8Decode(HeaderGet(scope.headers, "authorization", <<>>))
             expected_auth == BearerSp \o token
         IN  IF ~auth_header.ok THEN Handled(scope, <<>>, FALSE, TRUE)
             ELSE IF Rejects(auth_header.s, expected_auth)
                  THEN Handled(scope, <<Start401, Body401>>, FALSE, FALSE)
                  ELSE Handled(scope, <<>>, TRUE, FALSE)
    ELSE Handled(scope, <<>>, TRUE, FALSE)

\* Lines 174-179: the streamable HTTP application, wrapped when a token is
\* given.
get_app(auth_token) ==
    IF TruthyStr(auth_token)
    THEN [wrapped |-> TRUE, token |-> auth_token]
    ELSE [wrapped |-> FALSE, token |-> NoneStr]
NoApp == [wrapped |-> FALSE, token |-> <<-2>>]

\* The application serve_http hands to uvicorn, called with a request.
Serve(a, scope) ==
    IF a.wrapped THEN auth_middleware(a.token, scope)
    ELSE Handled(scope, <<>>, TRUE, FALSE)

(***************************************************************************)
(* The state after the module is imported, and the steps.                  *)
(***************************************************************************)
Callers == {"model", "walker"}

Tokens == {NoneStr, <<>>, <<115, 51>>, <<233>>}      \* None, "", "s3", "e-acute"
CustomUserAgents == {None, "", "my-agent/2.0"}
ProxyUrls == {None, "http://proxy.example:3128"}

\* The Authorization values a client sends, as bytes.
AuthValues ==
    {Utf8Encode(BearerSp \o <<115, 51>>),            \* Bearer s3
     Utf8Encode(BearerSp \o <<233>>),                \* Bearer e-acute, UTF-8
     Utf8Encode(BearerSp \o <<115, 51, 32>>),        \* Bearer s3 and a blank
     Utf8Encode(LowerBearerSp \o <<115, 51>>),       \* bearer s3
     Utf8Encode(BearerSp),                           \* Bearer and no token
     <<115, 51>>,                                    \* s3 alone
     BearerSp \o <<255>>}                            \* no UTF-8 at all
HeaderLists ==
    {<<>>}
      \cup {<<<<"authorization", v>>>> : v \in AuthValues}
      \cup {<<<<"accept", v>>>> : v \in AuthValues}
      \cup {<<<<"authorization", v>>, <<"authorization", w>>>> :
                v \in AuthValues, w \in {Utf8Encode(BearerSp \o <<115, 51>>), <<115, 51>>}}
Scopes == [type : {"http", "websocket", "lifespan"}, headers : HeaderLists]

NoHttp == Handled([type |-> "none", headers |-> <<>>], <<>>, FALSE, FALSE)

Walk(pc, m, next, acc, calls, content) ==
    [pc |-> pc, m |-> m, next |-> next, acc |-> acc, calls |-> calls,
     content |-> content]
WalkOff == Walk("off", 0, 0, <<>>, 0, <<>>)
WalkUrl == "http://a.example/doc"

Init ==
    /\ mcp_tools = {"fetch"}            \* @mcp.tool() ran, line 72
    /\ phase = "imported"
    /\ USER_AGENT_AUTONOMOUS = None
    /\ USER_AGENT_MANUAL = None
    /\ PROXY_URL = None
    /\ app = NoApp
    /\ remote \in Outcomes
    /\ inv = [c \in Callers |-> Idle]
    /\ walk = WalkOff
    /\ http = NoHttp

\* serve_http, lines 198-214: configure, build the application, run it.
ServeHttp(auth_token, custom_user_agent, proxy_url) ==
    /\ phase = "imported"
    /\ configure_server(custom_user_agent, proxy_url)
    /\ app' = get_app(auth_token)
    /\ phase' = "serving"
    /\ UNCHANGED <<mcp_tools, remote, inv, walk, http>>

\* The remote side changes what it serves; a walk over the old content is
\* given up.
RemoteChange(o) ==
    /\ o # remote
    /\ remote' = o
    /\ walk' = WalkOff
    /\ UNCHANGED <<mcp_tools, phase, USER_AGENT_AUTONOMOUS, USER_AGENT_MANUAL,
                   PROXY_URL, app, inv, http>>

\* A request arrives at the application uvicorn runs.
HttpRequest(scope) ==
    /\ phase = "serving"
    /\ http' = Serve(app, scope)
    /\ UNCHANGED <<mcp_tools, phase, USER_AGENT_AUTONOMOUS, USER_AGENT_MANUAL,
                   PROXY_URL, app, remote, inv, walk>>

\* The tool is called and runs to its await (or to its return).
ToolCall(c, url, max_length, start_index, raw) ==
    /\ phase = "serving"
    /\ "fetch" \in mcp_tools
    /\ inv[c].pc = "idle"
    /\ inv' = [inv EXCEPT ![c] = Enter(url, max_length, start_index, raw)]
    /\ UNCHANGED <<mcp_tools, phase, USER_AGENT_AUTONOMOUS, USER_AGENT_MANUAL,
                   PROXY_URL, app, remote, walk, http>>

\* fetch_url completes and the tool runs to its return.
FetchReturns(c) ==
    /\ inv[c].pc = "awaiting"
    /\ inv' = [inv EXCEPT ![c] = Leave(inv[c], remote)]
    /\ UNCHANGED <<mcp_tools, phase, USER_AGENT_AUTONOMOUS, USER_AGENT_MANUAL,
                   PROXY_URL, app, remote, walk, http>>

\* The caller takes the result.
Collect(c) ==
    /\ inv[c].pc = "done"
    /\ ~(c = "walker" /\ walk.pc = "waiting")
    /\ inv' = [inv EXCEPT ![c] = Idle]
    /\ UNCHANGED <<mcp_tools, phase, USER_AGENT_AUTONOMOUS, USER_AGENT_MANUAL,
                   PROXY_URL, app, remote, walk, http>>

\* The walking caller: it starts at 0 with a window m of its choice ...
WalkBegin(m) ==
    /\ phase = "serving"
    /\ walk.pc = "off"
    /\ inv["walker"].pc = "idle"
    /\ remote.kind = "ok"
    /\ Len(remote.content) > 0
    /\ walk' = Walk("ready", m, 0, <<>>, 0, remote.content)
    /\ UNCHANGED <<mcp_tools, phase, USER_AGENT_AUTONOMOUS, USER_AGENT_MANUAL,
                   PROXY_URL, app, remote, inv, http>>

\* ... calls the tool with the start_index it holds ...
WalkCall ==
    /\ walk.pc = "ready"
    /\ inv["walker"].pc = "idle"
    /\ inv' = [inv EXCEPT !["walker"] = Enter(WalkUrl, walk.m, walk.next, FALSE)]
    /\ walk' = [walk EXCEPT !.pc = "waiting", !.calls = @ + 1]
    /\ UNCHANGED <<mcp_tools, phase, USER_AGENT_AUTONOMOUS, USER_AGENT_MANUAL,
                   PROXY_URL, app, remote, http>>

\* ... and reads the answer: it appends the slice, and goes on at the index
\* the notice names, or stops when there is no notice.
WalkReceive ==
    /\ walk.pc = "waiting"
    /\ inv["walker"].pc = "done"
    /\ LET r == inv["walker"].result
       IN  walk' = IF r.kind # "contents" THEN [walk EXCEPT !.pc = "failed"]
                   ELSE IF r.notice
                        THEN [walk EXCEPT !.pc = "ready", !.acc = @ \o r.body,
                                          !.next = r.next_start]
                        ELSE [walk EXCEPT !.pc = "finished", !.acc = @ \o r.body]
    /\ inv' = [inv EXCEPT !["walker"] = Idle]
    /\ UNCHANGED <<mcp_tools, phase, USER_AGENT_AUTONOMOUS, USER_AGENT_MANUAL,
                   PROXY_URL, app, remote, http>>

WalkEnd ==
    /\ walk.pc \in {"finished", "failed"}
    /\ walk' = WalkOff
    /\ UNCHANGED <<mcp_tools, phase, USER_AGENT_AUTONOMOUS, USER_AGENT_MANUAL,
                   PROXY_URL, app, remote, inv, http>>

\* The defaults of the tool's signature, line 74.
DefaultMaxLength == 5000
DefaultStartIndex == 0

Startup ==
    \E t \in Tokens, u \in CustomUserAgents, p \in ProxyUrls : ServeHttp(t, u, p)
Environment == \E o \in Outcomes : RemoteChange(o)
Invoke ==
    \E url \in Urls, m \in MaxLengths, s \in StartIndexes, raw \in BOOLEAN :
        ToolCall("model", url, m, s, raw)
InvokeDefault ==
    \E url \in Urls : ToolCall("model", url, DefaultMaxLength, DefaultStartIndex, FALSE)
Resume == \E c \in Callers : FetchReturns(c)
Take == \E c \in Callers : Collect(c)
Walking == (\E m \in 1..(MaxLen + 1) : WalkBegin(m)) \/ WalkCall \/ WalkReceive \/ WalkEnd
Request == \E scope \in Scopes : HttpRequest(scope)

\* The tool, called with any arguments.
Next == Startup \/ Environment \/ Invoke \/ Resume \/ Take
Spec == Init /\ [][Next]_vars

\* A caller that walks a document, among calls of another caller.
NextWalk == Startup \/ Environment \/ InvokeDefault \/ Resume \/ Take \/ Walking
SpecWalk == Init /\ [][NextWalk]_vars

\* The application and its clients.
NextHttp == Startup \/ Request
SpecHttp == Init /\ [][NextHttp]_vars

(***************************************************************************)
(* The properties.                                                         *)
(***************************************************************************)
\* The upper limit FetchArgs declares for max_length, line 26.
MaxLengthLimit == 1000000

\* An invocation that fetched content and returned.
Fetched(i) == i.pc = "done" /\ i.outcome.kind = "ok"
ContentOf(i) == i.outcome.content

\* content[s : s + m] for 0 <= s and 0 < m, written out by positions.
Window(content, s, m) ==
    [k \in 1..Min(m, Len(content) - s) |-> content[s + k]]

\* C1: for content that was fetched and a window with 0 <= start_index <
\* len(content) and max_length > 0, the tool returns the contents reply
\* whose slice is content[start_index : start_index + max_length], of length
\* min(max_length, len(content) - start_index).
C1_Slice ==
    \A c \in Callers :
        LET i == inv[c]
        IN  (/\ Fetched(i)
             /\ 0 <= i.start_index
             /\ i.start_index < Len(ContentOf(i))
             /\ i.max_length > 0)
            => /\ i.result.kind = "contents"
               /\ i.result.body = Window(ContentOf(i), i.start_index, i.max_length)
               /\ Len(i.result.body)
                    = Min(i.max_length, Len(ContentOf(i)) - i.start_index)
               /\ i.result.url = i.url
               /\ i.result.prefix = i.outcome.prefix

\* A window that starts inside the content and is cut short by its end.
C1_Witness ==
    LET i == inv["model"]
    IN  /\ Fetched(i)
        /\ i.start_index > 0
        /\ i.start_index < Len(ContentOf(i))
        /\ i.max_length > Len(ContentOf(i)) - i.start_index
        /\ i.result.kind = "contents"

\* C2: a contents reply carries the continuation notice if and only if the
\* slice is max_length long and start_index + max_length < len(content).
C2_Notice ==
    \A c \in Callers :
        LET i == inv[c]
        IN  (Fetched(i) /\ i.result.kind = "contents")
            => (i.result.notice
                  <=> /\ Len(i.result.body) = i.max_length
                      /\ i.start_index + i.max_length < Len(ContentOf(i)))

\* A slice of max_length characters that ends where the content ends.
C2_Witness ==
    LET i == inv["model"]
    IN  /\ Fetched(i)
        /\ i.result.kind = "contents"
        /\ Len(i.result.body) = i.max_length
        /\ i.start_index + i.max_length = Len(ContentOf(i))
        /\ ~i.result.notice

\* C3: for content that was fetched, a start_index at or behind its end, and
\* any window whose slice is empty, gets the reply "No more content
\* available." and nothing else.
C3_NoMore ==
    \A c \in Callers :
        LET i == inv[c]
        IN  (/\ Fetched(i)
             /\ \/ i.start_index >= Len(ContentOf(i))
                \/ PySlice(ContentOf(i), i.start_index,
                           i.start_index + i.max_length) = <<>>)
            => i.result = NoMoreContent

\* A start_index behind the end of content that is not empty.
C3_Witness ==
    LET i == inv["model"]
    IN  /\ Fetched(i)
        /\ Len(ContentOf(i)) > 0
        /\ i.start_index > Len(ContentOf(i))
        /\ i.max_length > 0
        /\ i.result = NoMoreContent

\* C4: an invocation with an empty url returns "URL is required" and never
\* calls fetch_url.
C4_UrlRequired ==
    \A c \in Callers :
        LET i == inv[c]
        IN  (i.pc # "idle" /\ i.url = "")
            => /\ i.pc = "done"
               /\ i.result = UrlRequired
               /\ i.fetch_calls = 0

C4_Witness ==
    LET i == inv["model"]
    IN  i.pc = "done" /\ i.url = "" /\ i.result = UrlRequired

\* C5: when fetch_url raises, the invocation returns "Failed to fetch {url}:
\* {cause}" with the exception's message, does not paginate, has called
\* fetch_url once, and no exception leaves it.
C5_FetchFailure ==
    \A c \in Callers :
        LET i == inv[c]
        IN  /\ i.fetch_calls <= 1
            /\ i.result.kind # "exception"
            /\ (i.pc = "done" /\ i.outcome.kind = "raise")
               => /\ i.result = FetchFailed(i.url, i.outcome.cause)
                  /\ i.fetch_calls = 1

C5_Witness ==
    LET i == inv["model"]
    IN  /\ i.pc = "done"
        /\ i.outcome.kind = "raise"
        /\ i.result.kind = "fetch_failed"
        /\ i.result.cause = "status code 404"

\* C6: an HTTP request reaches the wrapped application if and only if no
\* token is configured or its Authorization header is "Bearer <token>";
\* every other HTTP request is answered with the 401 response.
C6_Auth ==
    (phase = "serving" /\ http.scope.type = "http")
    => LET given == HeaderGet(http.scope.headers, "authorization", <<>>)
           admitted == ~app.wrapped \/ given = Utf8Encode(BearerSp \o app.token)
       IN  /\ http.app_called <=> admitted
           /\ ~admitted => http.sent = <<Start401, Body401>>

\* C7: fetch_url is called with the autonomous user agent only after the
\* robots check ran for the url and allowed it.
C7_Robots ==
    \A c \in Callers :
        LET i == inv[c]
        IN  (i.fetch_calls > 0 /\ i.user_agent = USER_AGENT_AUTONOMOUS)
            => i.robots

\* C8: a slice the tool returns has start_index + length <= len(content) and
\* length <= max_length, and the tool slices only with 0 < max_length <
\* 1000000 and start_index >= 0.
C8_Bounds ==
    \A c \in Callers :
        LET i == inv[c]
        IN  (Fetched(i) /\ i.result.kind = "contents")
            => /\ i.start_index + Len(i.result.body) <= Len(ContentOf(i))
               /\ Len(i.result.body) <= i.max_length
               /\ 0 < i.max_length
               /\ i.max_length < MaxLengthLimit
               /\ i.start_index >= 0

Configured ==
    /\ USER_AGENT_AUTONOMOUS # None
    /\ USER_AGENT_MANUAL # None

\* C9 as stated: the configuration is initialized before the tool is
\* registered, so it is set in every state in which the tool is registered.
C9_BeforeRegistration == "fetch" \in mcp_tools => Configured

\* C9 amended: the tool is registered at import, the configuration is set
\* by serve_http before the server runs; whenever the server runs or an
\* invocation is in flight the user agents are set, fetch_url gets the
\* configured values, and no step of a serving process changes the three.
C9_ReadOnly ==
    /\ [](phase = "serving" => Configured)
    /\ [](\A c \in Callers :
            /\ inv[c].pc # "idle" => phase = "serving"
            /\ inv[c].fetch_calls > 0
               => /\ inv[c].user_agent = USER_AGENT_AUTONOMOUS
                  /\ inv[c].proxy_url = PROXY_URL)
    /\ [][phase = "serving"
            => UNCHANGED <<USER_AGENT_AUTONOMOUS, USER_AGENT_MANUAL, PROXY_URL>>]_vars

\* Two invocations in flight at once.
C9_Witness ==
    /\ inv["model"].pc = "awaiting"
    /\ inv["walker"].pc = "awaiting"
    /\ USER_AGENT_AUTONOMOUS = "my-agent/2.0"

CeilDiv(a, b) == (a + b - 1) \div b

\* C10: a caller that starts at 0 and follows the notices over unchanged
\* content collects the content without gap or overlap, is never told "No
\* more content available.", is named start_index + m each time, and is
\* done after ceil(L / m) calls.
C10_Walk ==
    LET L == Len(walk.content)
        i == inv["walker"]
    IN  /\ walk.pc # "failed"
        /\ walk.pc \in {"ready", "waiting", "finished"}
           => /\ walk.calls <= CeilDiv(L, walk.m)
              /\ walk.pc = "ready"
                 => /\ walk.next = walk.calls * walk.m
                    /\ walk.next < L
                    /\ walk.acc = SubSeq(walk.content, 1, walk.next)
              /\ walk.pc = "waiting"
                 => /\ walk.next = (walk.calls - 1) * walk.m
                    /\ walk.acc = SubSeq(walk.content, 1, walk.next)
                    /\ (i.pc = "done" /\ i.result.notice)
                       => i.result.next_start = i.start_index + walk.m
              /\ walk.pc = "finished"
                 => /\ walk.acc = walk.content
                    /\ walk.calls = CeilDiv(L, walk.m)

\* A walk of two calls whose last page is short.
C10_Witness ==
    /\ walk.pc = "finished"
    /\ walk.calls = 2
    /\ walk.m = 2
    /\ Len(walk.content) = 3
    /\ walk.acc = walk.content
====
